---- MODULE Spec2Model ----
(***************************************************************************)
(* A model of ftl-translator: the Fluent message extractor                 *)
(* (ftl_translator/extractor.py), the concatenated-batch protocol and the  *)
(* translate orchestrator (ftl_translator/google/translate.py), the        *)
(* rate-limited Google client (ftl_translator/google/translator.py) and    *)
(* the options object (ftl_translator/options.py), and the batch-job flow   *)
(* of the AI translator (ftl_translator/ai).                               *)
(*                                                                         *)
(* A Python str is a sequence of one-character strings.  A Fluent AST node *)
(* is a record whose "type" field is the name of its fluent.syntax class.  *)
(***************************************************************************)
EXTENDS Integers, Sequences, FiniteSets, TLC

VARIABLES
    \* ---- extractor ----
    entry,              \* the parsed ast.Message being processed
    info,               \* the MessageInfo record built from it (None before)
    cpc,                \* "parsed" -> "encoded" -> "translated" -> "decoded"
    fluent,             \* the output of MessageInfo.to_fluent()
    \* ---- translate_concatenated_batch ----
    msg_info_batch,     \* the text field of each MessageInfo of the batch
    batch_before,       \* the same texts when the call started
    batch_text,         \* the joined text handed to g_translator.translate
    translated_raw,     \* what g_translator.translate returned
    translated_batch,   \* the provider's answer split on the separator
    bpc,                \* "start" -> "awaiting" -> "returned" | "raised_..."
    \* ---- GoogleTranslator ----
    sessions,           \* self.sessions: the ring of session ids
    permits,            \* session id -> free permits of its asyncio.Semaphore
    retry_limit,        \* self.retry_count
    texts,              \* task -> the text argument of its translate call
    tpc,                \* task -> position inside translate / _request
    tsession,           \* task -> the session get_session returned to it
    tretry,             \* task -> the retry_count argument
    nrequests,          \* task -> session.get calls issued so far
    nsleeps,            \* task -> asyncio.sleep calls so far
    n429,               \* task -> 429 answers received so far
    last_status,        \* task -> the kind of the last answer it received
    tresult,            \* task -> the value translate returned
    completed,          \* the tasks in the order in which they returned
    gathered,           \* the list translate_batch (asyncio.gather) returned
    gpc,                \* "pending" -> "returned" | "raised"
    nselected,          \* session id -> times get_session returned it
    tlast,              \* sleeping task -> the session that answered 429
    self_source,        \* self.source
    self_target,        \* self.target
    self_params,        \* self.params
    tsource,            \* task -> the source argument of its translate call
    ttarget,            \* task -> the target argument of its translate call
    tparams,            \* task -> its local dict params, sent with its request
    \* ---- options.py and the translate orchestrator ----
    requested,          \* the target_locales argument of the options object
    opts,               \* the options object after model_post_init
    tree,               \* the .ftl files under origin_locale_dir, with records
    ftl_files,          \* parse_ftl_files(opts.origin_locale_dir)
    li,                 \* position of "for target_locale in opts.target_locales"
    fi,                 \* position of "for file in ftl_files"
    target_file,        \* opts.create_target_file(file, target_locale)
    batches,            \* the batches of the file being translated
    bi,                 \* position of "for batch in batches"
    file_text,          \* translated_text: the output accumulated for the file
    written,            \* the writes of target files, in order
    opc,                \* "file" -> "batch" -> "write" -> ... -> "done" | "raised"
    oerror,             \* the exception that left translate
    g_translator,       \* "open" inside "async with GoogleTranslator", else "closed"
    events,             \* what was done to the records of the current file, in order
    \* ---- ai: AiTranslator.translate_batch and the ai translate ----
    ai_batch,           \* translate_objs: data and translated_data of each object
    job_status,         \* the status of the batch job at the provider
    output,             \* the lines of the job's output file
    results,            \* what parse_batch_content returned
    apc,                \* "start" -> "polling" <-> "sleeping" -> "fetched" -> ...
    ai_written          \* the target files the ai translate wrote, in order

codec_vars == <<entry, info, cpc, fluent>>
batch_vars == <<msg_info_batch, batch_before, batch_text, translated_raw,
                translated_batch, bpc>>
client_vars == <<sessions, permits, retry_limit, texts, tpc, tsession, tretry,
                 nrequests, nsleeps, n429, last_status, tresult, completed,
                 gathered, gpc, nselected, tlast, self_source, self_target,
                 self_params, tsource, ttarget, tparams>>
orch_vars == <<requested, opts, tree, ftl_files, li, fi, target_file, batches, bi,
               file_text, written, opc, oerror, g_translator, events>>
ai_vars == <<ai_batch, job_status, output, results, apc, ai_written>>
vars == <<codec_vars, batch_vars, client_vars, orch_vars, ai_vars>>


(***************************************************************************)
(* Python str operations                                                   *)
(***************************************************************************)

\* s.startswith(p)
StartsWith(s, p) ==
    /\ Len(p) <= Len(s)
    /\ SubSeq(s, 1, Len(p)) = p

\* s[n:]
Drop(s, n) == SubSeq(s, n + 1, Len(s))

\* s.find(sub) as a 1-based position, 0 when sub does not occur
Find(s, sub) ==
    LET at == { i \in 1..(Len(s) - Len(sub) + 1) : SubSeq(s, i, i + Len(sub) - 1) = sub }
    IN  IF at = {} THEN 0 ELSE CHOOSE i \in at : \A j \in at : i <= j

Contains(s, sub) == Find(s, sub) # 0

\* s.replace(old, new): every non-overlapping occurrence, leftmost first
RECURSIVE Replace(_, _, _)
Replace(s, old, new) ==
    LET p == Find(s, old) IN
    IF p = 0 THEN s
    ELSE SubSeq(s, 1, p - 1) \o new \o Replace(Drop(s, p + Len(old) - 1), old, new)

\* sep.join(parts)
RECURSIVE Join(_, _)
Join(parts, sep) ==
    IF parts = <<>> THEN <<>>
    ELSE IF Len(parts) = 1 THEN parts[1]
    ELSE parts[1] \o sep \o Join(Tail(parts), sep)

\* s.split(sep): leftmost non-overlapping occurrences; always at least one piece
RECURSIVE Split(_, _)
Split(s, sep) ==
    LET p == Find(s, sep) IN
    IF p = 0 THEN <<s>>
    ELSE <<SubSeq(s, 1, p - 1)>> \o Split(Drop(s, p + Len(sep) - 1), sep)

IsSpace(c) == c \in {" ", "\n", "\t"}

RECURSIVE LStrip(_)
LStrip(s) == IF s # <<>> /\ IsSpace(Head(s)) THEN LStrip(Tail(s)) ELSE s

RECURSIVE RStrip(_)
RStrip(s) ==
    IF s # <<>> /\ IsSpace(s[Len(s)]) THEN RStrip(SubSeq(s, 1, Len(s) - 1)) ELSE s

\* s.strip()
Strip(s) == RStrip(LStrip(s))

Digit(d) == CASE d = 0 -> "0" [] d = 1 -> "1" [] d = 2 -> "2" [] d = 3 -> "3"
              [] d = 4 -> "4" [] d = 5 -> "5" [] d = 6 -> "6" [] d = 7 -> "7"
              [] d = 8 -> "8" [] d = 9 -> "9"

\* str(i) of a non-negative int
RECURSIVE Decimal(_)
Decimal(i) == IF i < 10 THEN <<Digit(i)>> ELSE Decimal(i \div 10) \o <<Digit(i % 10)>>

\* f"{{{index}}}"
IndexToken(index) == <<"{">> \o Decimal(index) \o <<"}">>

(***************************************************************************)
(* fluent.syntax AST nodes                                                 *)
(***************************************************************************)

TextElement(value) == [type |-> "TextElement", value |-> value]
VariableReference(name) == [type |-> "VariableReference", name |-> name]
TermReference(name) == [type |-> "TermReference", name |-> name]
MessageReference(name) == [type |-> "MessageReference", name |-> name]
StringLiteral(value) == [type |-> "StringLiteral", value |-> value]
NumberLiteral(value) == [type |-> "NumberLiteral", value |-> value]
Variant(key, value) == [key |-> key, value |-> value]
SelectExpression(selector, variants) ==
    [type |-> "SelectExpression", selector |-> selector, variants |-> variants]
Placeable(expression) == [type |-> "Placeable", expression |-> expression]
Pattern(elements) == [type |-> "Pattern", elements |-> elements]
\* entry.value of a message that has attributes only
None == [type |-> "None", elements |-> <<>>]
Attribute(id, value) == [id |-> id, value |-> value]
Message(id, value, attributes) == [id |-> id, value |-> value, attributes |-> attributes]

(***************************************************************************)
(* extractor.py                                                            *)
(***************************************************************************)

RECURSIVE replace_variables_with_indexes(_)
RECURSIVE process_placeable(_, _)
RECURSIVE process_select_expression(_)
RECURSIVE PatternLoop(_, _, _)
RECURSIVE VariantLoop(_, _)

\* process_select_expression: the loop over expression.variants
VariantLoop(variants, acc) ==
    IF variants = <<>> THEN acc
    ELSE LET variant == Head(variants)
             v == replace_variables_with_indexes(variant.value)
         IN  VariantLoop(Tail(variants),
                 [variables |-> acc.variables \o v.user_variables,
                  term_variables |-> acc.term_variables \o v.term_variables,
                  original_text |-> acc.original_text \o <<" ", " ", " ", "[">>
                                    \o variant.key \o <<"]", " ">>
                                    \o v.original_text \o <<"\n">>])

\* A select expression whose selector is not recorded
process_select_expression_NoSelector(expression) ==
    LET selector == expression.selector
        start == [variables |-> <<>>,
                  term_variables |-> <<>>,
                  original_text |-> <<"{", " ">> \o selector.name
                                    \o <<" ", "-", ">", "\n">>]
        done == VariantLoop(expression.variants, start)
        original_text == done.original_text \o <<"}">>
    IN  [text |-> original_text,
         variables |-> done.variables,
         term_variables |-> done.term_variables,
         original_text |-> original_text]

process_select_expression(expression) ==
    LET selector == expression.selector
        start == [variables |->
                      IF selector.type = "VariableReference"
                      THEN <<selector.name>> ELSE <<>>,
                  term_variables |->
                      IF selector.type \in {"MessageReference", "TermReference"}
                      THEN <<selector.name>> ELSE <<>>,
                  original_text |-> <<"{", " ">> \o selector.name
                                    \o <<" ", "-", ">", "\n">>]
        done == VariantLoop(expression.variants, start)
        original_text == done.original_text \o <<"}">>
    IN  [text |-> original_text,
         variables |-> done.variables,
         term_variables |-> done.term_variables,
         original_text |-> original_text]

process_placeable(placeable, index) ==
    LET expression == placeable.expression IN
    CASE expression.type = "VariableReference" ->
            [text |-> IndexToken(index),
             original_text |-> <<"{", " ", "$">> \o expression.name \o <<" ", "}">>,
             variables |-> <<expression.name>>,
             term_variables |-> <<>>]
      [] expression.type = "TermReference" ->
            [text |-> IndexToken(index),
             original_text |-> <<"{", " ", "-">> \o expression.name \o <<" ", "}">>,
             variables |-> <<>>,
             term_variables |-> <<expression.name>>]
      [] expression.type = "MessageReference" ->
            [text |-> IndexToken(index),
             original_text |-> <<"{", " ", "$">> \o expression.name \o <<" ", "}">>,
             variables |-> <<expression.name>>,
             term_variables |-> <<>>]
      [] expression.type = "SelectExpression" ->
            LET s == process_select_expression(expression) IN
            [text |-> s.text,
             original_text |-> s.original_text,
             variables |-> s.variables,
             term_variables |-> s.term_variables]
      [] expression.type = "StringLiteral" ->
            [text |-> <<"\"">> \o expression.value \o <<"\"">>,
             original_text |-> <<"\"">> \o expression.value \o <<"\"">>,
             variables |-> <<>>,
             term_variables |-> <<>>]
      [] expression.type = "NumberLiteral" ->
            [text |-> expression.value,
             original_text |-> expression.value,
             variables |-> <<>>,
             term_variables |-> <<>>]
      [] OTHER ->
            [text |-> <<>>, original_text |-> <<>>,
             variables |-> <<>>, term_variables |-> <<>>]

\* index += 1 after every Placeable, whatever its expression
NextIndex(index) == index + 1

\* replace_variables_with_indexes: the loop over pattern.elements
PatternLoop(elements, index, acc) ==
    IF elements = <<>> THEN acc
    ELSE LET element == Head(elements) IN
         IF element.type = "TextElement"
         THEN PatternLoop(Tail(elements), index,
                  [acc EXCEPT !.text = @ \o element.value,
                              !.original_text = @ \o element.value])
         ELSE LET p == process_placeable(element, index) IN
              PatternLoop(Tail(elements), NextIndex(index),
                  [text |-> acc.text \o p.text,
                   user_variables |-> acc.user_variables \o p.variables,
                   term_variables |-> acc.term_variables \o p.term_variables,
                   original_text |-> acc.original_text \o p.original_text])

\* returns text, user_variables, term_variables, original_text; the local
\* all_variables list is built and not returned
replace_variables_with_indexes(pattern) ==
    PatternLoop(pattern.elements, 0,
        [text |-> <<>>, user_variables |-> <<>>, term_variables |-> <<>>,
         original_text |-> <<>>])

\* [f"-{term}" for term in term_variables]
PrefixTerms(term_variables) ==
    [i \in 1..Len(term_variables) |-> <<"-">> \o term_variables[i]]

\* get_message_info: the loop over entry.attributes
RECURSIVE AttributeLoop(_, _)
AttributeLoop(attributes, acc) ==
    IF attributes = <<>> THEN acc
    ELSE LET attribute == Head(attributes)
             a == replace_variables_with_indexes(attribute.value)
         IN  AttributeLoop(Tail(attributes),
                 [acc EXCEPT
                    !.text = @ \o <<"\n", ".">> \o attribute.id \o <<" ", "=", " ">>
                               \o a.text,
                    !.original_text = @ \o <<"\n", ".">> \o attribute.id
                               \o <<" ", "=", " ">> \o a.original_text,
                    !.variables = @ \o a.user_variables,
                    !.term_variables = @ \o a.term_variables,
                    !.all_variables = @ \o a.user_variables \o a.term_variables])

\* The MessageInfo that get_message_info builds for one ast.Message
get_message_info(message) ==
    LET v == replace_variables_with_indexes(message.value)
        body == IF message.value.type # "None"
                THEN [name |-> message.id,
                      text |-> v.text,
                      variables |-> v.user_variables,
                      term_variables |-> PrefixTerms(v.term_variables),
                      original_text |-> v.original_text,
                      all_variables |-> v.user_variables
                                        \o PrefixTerms(v.term_variables)]
                ELSE [name |-> message.id,
                      text |-> <<>>,
                      variables |-> <<>>,
                      term_variables |-> <<>>,
                      original_text |-> <<>>,
                      all_variables |-> <<>>]
    IN  AttributeLoop(message.attributes, body)

\* MessageInfo.restore_text_with_variables: the loop over all_variables
RECURSIVE RestoreLoop(_, _, _)
RestoreLoop(restored_text, all_variables, i) ==
    IF i >= Len(all_variables) THEN restored_text
    ELSE LET var_name == IF StartsWith(all_variables[i + 1], <<"-">>)
                         THEN all_variables[i + 1]
                         ELSE <<"$">> \o all_variables[i + 1]
         IN  RestoreLoop(Replace(restored_text, IndexToken(i),
                                 <<"{", " ">> \o var_name \o <<" ", "}">>),
                         all_variables, i + 1)

restore_text_with_variables(self) == RestoreLoop(self.text, self.all_variables, 0)

\* MessageInfo.to_fluent
to_fluent(self) ==
    self.name \o <<" ", "=", "\n", " ", " ", " ", " ">>
    \o Replace(restore_text_with_variables(self), <<"\n">>,
               <<"\n", " ", " ", " ", " ">>)

(***************************************************************************)
(* The messages the extractor is run on                                    *)
(***************************************************************************)

MaxElems == 2       \* elements of a message body pattern
MaxAttrs == 2       \* attributes of a message

RefPlaceables ==
    { Placeable(VariableReference(<<"a">>)),
      Placeable(TermReference(<<"t">>)),
      Placeable(MessageReference(<<"m">>)) }

LiteralPlaceables ==
    { Placeable(StringLiteral(<<"s">>)),
      Placeable(NumberLiteral(<<"7">>)) }

PlainText == TextElement(<<"x">>)

\* { $n -> [one] <first> *[other] x }
SelectOf(selector, first) ==
    Placeable(SelectExpression(selector,
        << Variant(<<"o", "n", "e">>, Pattern(first)),
           Variant(<<"o", "t", "h", "e", "r">>, Pattern(<<PlainText>>)) >>))

SimpleSelects ==
    { SelectOf(VariableReference(<<"n">>), <<PlainText>>),
      SelectOf(VariableReference(<<"n">>),
               <<Placeable(VariableReference(<<"a">>)), PlainText>>) }

NestedSelects ==
    { SelectOf(TermReference(<<"t">>),
               <<SelectOf(VariableReference(<<"n">>),
                          <<Placeable(TermReference(<<"t">>))>>)>>) }

Elems == {PlainText} \cup RefPlaceables \cup LiteralPlaceables
         \cup SimpleSelects \cup NestedSelects

\* The parser merges adjacent text: no two TextElements follow each other
NoAdjacentText(elements) ==
    \A i \in 1..(Len(elements) - 1) :
        ~(elements[i].type = "TextElement" /\ elements[i + 1].type = "TextElement")

ElementSeqs(S, n) ==
    { e \in UNION { [1..k -> S] : k \in 1..n } : NoAdjacentText(e) }

BodyPatterns == { Pattern(e) : e \in ElementSeqs(Elems, MaxElems) }

AttrPatterns ==
    { Pattern(<<PlainText>>),
      Pattern(<<Placeable(VariableReference(<<"b">>))>>),
      Pattern(<<Placeable(TermReference(<<"u">>))>>),
      Pattern(<<Placeable(StringLiteral(<<"s">>)),
                Placeable(VariableReference(<<"b">>))>>) }

AttrIds == << <<"p">>, <<"q">>, <<"r">> >>

AttrLists ==
    UNION { { [i \in 1..k |-> Attribute(AttrIds[i], ps[i])] : ps \in [1..k -> AttrPatterns] }
            : k \in 0..MaxAttrs }

\* Bodies of one text or one reference
SmallBodies == { Pattern(<<e>>) : e \in {PlainText} \cup RefPlaceables }

\* A message has a value or at least one attribute.  Every body goes with at
\* most one attribute, every attribute list with a small body or no value
Messages ==
    { Message(<<"k">>, v, as) : v \in BodyPatterns, as \in { l \in AttrLists : Len(l) <= 1 } }
    \cup { Message(<<"k">>, v, as) : v \in SmallBodies, as \in AttrLists }
    \cup { Message(<<"k">>, None, as) : as \in AttrLists \ {<<>>} }

(***************************************************************************)
(* The provider's effect on one record's text: it rewrites the literal     *)
(* letters and leaves every other character where it is, or it gives the   *)
(* first index token another number                                        *)
(***************************************************************************)

Translit(text) == [i \in DOMAIN text |-> IF text[i] = "x" THEN "z" ELSE text[i]]

\* The text with its tokens {0} turned into {9}
Renumbered(text) == Replace(text, <<"{", "0", "}">>, <<"{", "9", "}">>)

TranslationsOf(text) == {text, Translit(text), Renumbered(text)}

(***************************************************************************)
(* Extractor pipeline: Encode, (translate), Decode                         *)
(***************************************************************************)

NoInfo == [name |-> <<>>, text |-> <<>>, variables |-> <<>>, term_variables |-> <<>>,
           original_text |-> <<>>, all_variables |-> <<>>]

\* MessageInfo.get_message_info(resource), for one entry of resource.body
Encode ==
    /\ cpc = "parsed"
    /\ info' = get_message_info(entry)
    /\ cpc' = "encoded"
    /\ UNCHANGED <<entry, fluent>>
    /\ UNCHANGED <<batch_vars, client_vars, orch_vars, ai_vars>>

\* info.text = translated_text
TranslateText ==
    /\ cpc = "encoded"
    /\ \E translated_text \in TranslationsOf(info.text) :
           info' = [info EXCEPT !.text = translated_text]
    /\ cpc' = "translated"
    /\ UNCHANGED <<entry, fluent>>
    /\ UNCHANGED <<batch_vars, client_vars, orch_vars, ai_vars>>

\* info.to_fluent() on a record that was not translated
DecodeEncoded ==
    /\ cpc = "encoded"
    /\ fluent' = to_fluent(info)
    /\ cpc' = "decoded_untranslated"
    /\ UNCHANGED <<entry, info>>
    /\ UNCHANGED <<batch_vars, client_vars, orch_vars, ai_vars>>

\* info.to_fluent() on a translated record
DecodeTranslated ==
    /\ cpc = "translated"
    /\ fluent' = to_fluent(info)
    /\ cpc' = "decoded"
    /\ UNCHANGED <<entry, info>>
    /\ UNCHANGED <<batch_vars, client_vars, orch_vars, ai_vars>>

CodecNext ==
    \/ Encode
    \/ TranslateText
    \/ DecodeEncoded
    \/ DecodeTranslated

(***************************************************************************)
(* google/translator.py: the parts of GoogleTranslator.translate that      *)
(* decide what is sent                                                     *)
(***************************************************************************)

max_chars == 5000

\* The input test without its length limit
IsInputValid_NoLengthCheck(text) == text # <<>>

\* GoogleTranslator._is_input_valid
IsInputValid(text) == text # <<>> /\ Len(text) <= max_chars

\* params["q"] = text.strip()
QueryOf(text) == Strip(text)

(***************************************************************************)
(* google/translate.py: translate_concatenated_batch                       *)
(***************************************************************************)

MaxBatch == 2       \* records in one batch

separator == <<"\n", "[", "◙", "]", "\n">>

\* Texts of encoded records: a plain body, a body that is one index token, a
\* message with no value and one attribute, and a body whose only placeable
\* is of a kind process_placeable does not handle
BatchTexts ==
    { <<"x">>,
      <<"{", "0", "}">>,
      <<"\n", ".", "p", " ", "=", " ", "x">>,
      <<>> }

Batches == UNION { [1..n -> BatchTexts] : n \in 1..MaxBatch }

\* What the provider may send back for the query q: q itself, q with its
\* letters translated, q with every separator lost, q with a separator added
ProviderAnswers(q) ==
    { q,
      Translit(q),
      Replace(q, separator, <<" ">>),
      q \o separator \o <<"z">> }

\* separator.join([info.text for info in msg_info_batch]), then the call of
\* g_translator.translate up to its request (or its ValueError)
BatchCall ==
    /\ bpc = "start"
    /\ batch_text' = Join(msg_info_batch, separator)
    /\ bpc' = IF IsInputValid(batch_text') THEN "awaiting" ELSE "raised_ValueError"
    /\ UNCHANGED <<msg_info_batch, batch_before, translated_raw, translated_batch>>
    /\ UNCHANGED <<codec_vars, client_vars, orch_vars, ai_vars>>

\* g_translator.translate raises (retries exhausted, provider error)
BatchTranslateFails ==
    /\ bpc = "awaiting"
    /\ bpc' = "raised_translate"
    /\ UNCHANGED <<msg_info_batch, batch_before, batch_text, translated_raw,
                   translated_batch>>
    /\ UNCHANGED <<codec_vars, client_vars, orch_vars, ai_vars>>

\* The pieces assigned by "for i, info in enumerate(msg_info_batch)": record i
\* gets piece i; the loop stops at the first i that has no piece
Assigned(batch, pieces) ==
    [i \in 1..Len(batch) |-> IF i <= Len(pieces) THEN pieces[i] ELSE batch[i]]

\* translated_batch[i] raises IndexError for some i < len(msg_info_batch)
RaisesIndexError(batch, pieces) == Len(pieces) < Len(batch)

\* g_translator.translate returns; split; assign; return or IndexError
BatchApply ==
    /\ bpc = "awaiting"
    /\ \E answer \in ProviderAnswers(QueryOf(batch_text)) :
         /\ translated_raw' = answer
         /\ translated_batch' = Split(answer, separator)
    /\ msg_info_batch' = Assigned(msg_info_batch, translated_batch')
    /\ bpc' = IF RaisesIndexError(msg_info_batch, translated_batch')
              THEN "raised_IndexError" ELSE "returned"
    /\ UNCHANGED <<batch_before, batch_text>>
    /\ UNCHANGED <<codec_vars, client_vars, orch_vars, ai_vars>>

BatchNext ==
    \/ BatchCall
    \/ BatchTranslateFails
    \/ BatchApply

(***************************************************************************)
(* google/translator.py: GoogleTranslator                                  *)
(***************************************************************************)

NumTasks == 2       \* translate calls running concurrently (one gather)
NumSessions == 2    \* (semaphore, session) pairs of self.sessions
Limit == 1          \* asyncio.Semaphore(limit)
MaxRetry == 1       \* largest configured self.retry_count

\* retry_count: int | None = None, as <<>> or a one-element tuple
NoRetryCount == <<>>

\* A task outside _request holds no (semaphore, session) pair
NoSession == 0

Tasks == 1..NumTasks
SessionIds == 1..NumSessions

\* A text one character longer than the provider accepts
LongText == [i \in 1..(max_chars + 1) |-> "a"]

\* The text arguments: a word, a word with leading whitespace, the empty
\* text, a text that is too long
TaskTexts == { <<"a">>, <<" ", "b">>, <<>>, LongText }

\* The provider's translation of the query q
Translated(q) ==
    [i \in DOMAIN q |-> CASE q[i] = "a" -> "A" [] q[i] = "b" -> "B" [] OTHER -> q[i]]

\* result[0] of a well-formed answer: here one fragment [translation, ...]
ProviderItems(q) == << <<Translated(q)>> >>

\* "".join([item[0] for item in items if item[0]])
RECURSIVE JoinItems(_)
JoinItems(items) ==
    IF items = <<>> THEN <<>>
    ELSE (IF Head(items)[1] # <<>> THEN Head(items)[1] ELSE <<>>)
         \o JoinItems(Tail(items))

\* What translate returns for text when the request succeeds
TranslationOf(text) == JoinItems(ProviderItems(QueryOf(text)))

\* source: str | None = None, as <<>> or a one-element tuple
NoLanguage == <<>>

\* A task that has not reached "params = self.params.copy()" has no params
NoParams == <<>>

\* self.params as __init__ builds it
InitParams(source, target) ==
    [client |-> <<"g", "t", "x">>, dt |-> <<"t">>, sl |-> source, tl |-> target,
     q |-> <<>>]

\* params = self.params.copy(), then sl, tl and q are set in it
ParamsOf(text, source, target) ==
    [self_params EXCEPT
        !.sl = IF source # NoLanguage /\ source[1] # <<>> THEN source[1] ELSE @,
        !.tl = IF target # NoLanguage /\ target[1] # <<>> THEN target[1] ELSE @,
        !.q = Strip(text)]

\* sl, tl and q set in self.params itself
SelfParamsAfter_NoCopy(params) == params

\* self.params after a call built its params: the call wrote into its copy
SelfParamsAfter(params) == self_params

\* A ring that get_session leaves as it is
RingAfterGet_NoRotation(ring) == ring

\* get_session: pop the head pair, push it to the tail, return it
RingAfterGet(ring) == Tail(ring) \o <<Head(ring)>>

\* An acquire that never waits
SemaphoreFree_Always(s) == TRUE

\* Semaphore.acquire returns at once when a permit is free
SemaphoreFree(s) == permits[s] > 0

\* _request up to its first suspension: get_session, then "async with
\* semaphore" either takes a permit and issues session.get, or blocks
EnterRequest(t) ==
    LET s == Head(sessions)
        params == ParamsOf(texts[t], tsource[t], ttarget[t])
    IN
    /\ tparams' = [tparams EXCEPT ![t] = params]
    /\ self_params' = SelfParamsAfter(params)
    /\ sessions' = RingAfterGet(sessions)
    /\ nselected' = [nselected EXCEPT ![s] = @ + 1]
    /\ tsession' = [tsession EXCEPT ![t] = s]
    /\ tlast' = [tlast EXCEPT ![t] = NoSession]
    /\ IF SemaphoreFree(s)
       THEN /\ permits' = [permits EXCEPT ![s] = @ - 1]
            /\ tpc' = [tpc EXCEPT ![t] = "in_flight"]
            /\ nrequests' = [nrequests EXCEPT ![t] = @ + 1]
       ELSE /\ tpc' = [tpc EXCEPT ![t] = "acquiring"]
            /\ UNCHANGED <<permits, nrequests>>

\* translate(text): the input check, then _request
Call(t) ==
    /\ tpc[t] = "start"
    /\ IF IsInputValid(texts[t])
       THEN EnterRequest(t)
       ELSE /\ tpc' = [tpc EXCEPT ![t] = "raised_ValueError"]
            /\ UNCHANGED <<sessions, tsession, permits, nrequests, nselected, tlast,
                           self_params, tparams>>
    /\ UNCHANGED <<retry_limit, texts, tretry, nsleeps, n429, last_status, tresult,
                   completed, gathered, gpc>>
    /\ UNCHANGED <<self_source, self_target, tsource, ttarget>>
    /\ UNCHANGED <<codec_vars, batch_vars, orch_vars, ai_vars>>

\* A task blocked in Semaphore.acquire gets a permit and issues session.get
Acquire(t) ==
    /\ tpc[t] = "acquiring"
    /\ SemaphoreFree(tsession[t])
    /\ permits' = [permits EXCEPT ![tsession[t]] = @ - 1]
    /\ tpc' = [tpc EXCEPT ![t] = "in_flight"]
    /\ nrequests' = [nrequests EXCEPT ![t] = @ + 1]
    /\ UNCHANGED <<sessions, retry_limit, texts, tsession, tretry, nsleeps, n429,
                   last_status, tresult, completed, gathered, gpc>>
    /\ UNCHANGED <<nselected, tlast, self_params, tparams>>
    /\ UNCHANGED <<self_source, self_target, tsource, ttarget>>
    /\ UNCHANGED <<codec_vars, batch_vars, orch_vars, ai_vars>>

\* A _request that leaves without giving its permit back
Release_Never(t) ==
    /\ UNCHANGED permits
    /\ tsession' = [tsession EXCEPT ![t] = NoSession]

\* Leaving "async with semaphore": Semaphore.release; _request is left and
\* its local (semaphore, session) pair with it
Release(t) ==
    /\ permits' = [permits EXCEPT ![tsession[t]] = @ + 1]
    /\ tsession' = [tsession EXCEPT ![t] = NoSession]

\* status 200 and a well-formed body: _request returns result[0] and
\* translate returns the joined fragments
RespondOk(t) ==
    /\ tpc[t] = "in_flight"
    /\ Release(t)
    /\ tresult' = [tresult EXCEPT ![t] = JoinItems(ProviderItems(QueryOf(texts[t])))]
    /\ tpc' = [tpc EXCEPT ![t] = "returned"]
    /\ last_status' = [last_status EXCEPT ![t] = "ok"]
    /\ completed' = Append(completed, t)
    /\ UNCHANGED <<sessions, retry_limit, texts, tretry, nrequests,
                   nsleeps, n429, gathered, gpc>>
    /\ UNCHANGED <<nselected, tlast, self_params, tparams>>
    /\ UNCHANGED <<self_source, self_target, tsource, ttarget>>
    /\ UNCHANGED <<codec_vars, batch_vars, orch_vars, ai_vars>>

\* retry_count defaulting to 0 instead of None: the first 429 decrements it
RetryCountAfter429_DefaultZero(retry_count) ==
    IF retry_count = NoRetryCount THEN 0 - 1 ELSE retry_count[1] - 1

\* "if retry_count is None: retry_count = self.retry_count / else: retry_count -= 1"
RetryCountAfter429(retry_count) ==
    IF retry_count = NoRetryCount THEN retry_limit ELSE retry_count[1] - 1

\* A budget that allows one retry more
RetryExhausted_OneLater(retry_count) == retry_count < 0 - 1

\* "if retry_count < 0: raise e"
RetryExhausted(retry_count) == retry_count < 0

\* The backoff sleep taken inside "async with semaphore": the permit is kept
Respond429_SleepsInside(t) ==
    LET retry_count == RetryCountAfter429(tretry[t]) IN
    /\ tpc[t] = "in_flight"
    /\ n429' = [n429 EXCEPT ![t] = @ + 1]
    /\ last_status' = [last_status EXCEPT ![t] = "429"]
    /\ tretry' = [tretry EXCEPT ![t] = <<retry_count>>]
    /\ IF RetryExhausted(retry_count)
       THEN /\ Release(t)
            /\ tpc' = [tpc EXCEPT ![t] = "raised_TooManyRequests"]
            /\ UNCHANGED <<nsleeps, tlast>>
       ELSE /\ tsession' = [tsession EXCEPT ![t] = NoSession]
            /\ tpc' = [tpc EXCEPT ![t] = "sleeping"]
            /\ nsleeps' = [nsleeps EXCEPT ![t] = @ + 1]
            /\ tlast' = [tlast EXCEPT ![t] = tsession[t]]
            /\ UNCHANGED permits
    /\ UNCHANGED <<sessions, retry_limit, texts, nrequests, tresult,
                   completed, gathered, gpc, nselected, self_params, tparams>>
    /\ UNCHANGED <<self_source, self_target, tsource, ttarget>>
    /\ UNCHANGED <<codec_vars, batch_vars, orch_vars, ai_vars>>

\* status 429: _request raises TooManyRequestsError; translate re-raises it
\* or goes to sleep before calling itself again
Respond429(t) ==
    LET retry_count == RetryCountAfter429(tretry[t]) IN
    /\ tpc[t] = "in_flight"
    /\ Release(t)
    /\ n429' = [n429 EXCEPT ![t] = @ + 1]
    /\ last_status' = [last_status EXCEPT ![t] = "429"]
    /\ tretry' = [tretry EXCEPT ![t] = <<retry_count>>]
    /\ IF RetryExhausted(retry_count)
       THEN /\ tpc' = [tpc EXCEPT ![t] = "raised_TooManyRequests"]
            /\ UNCHANGED <<nsleeps, tlast>>
       ELSE /\ tpc' = [tpc EXCEPT ![t] = "sleeping"]
            /\ nsleeps' = [nsleeps EXCEPT ![t] = @ + 1]
            /\ tlast' = [tlast EXCEPT ![t] = tsession[t]]
    /\ UNCHANGED <<sessions, retry_limit, texts, nrequests, tresult,
                   completed, gathered, gpc, nselected, self_params, tparams>>
    /\ UNCHANGED <<self_source, self_target, tsource, ttarget>>
    /\ UNCHANGED <<codec_vars, batch_vars, orch_vars, ai_vars>>

\* A TranslationError handled like a 429: sleep, then call translate again
RespondError_Retried(t) ==
    /\ tpc[t] = "in_flight"
    /\ Release(t)
    /\ last_status' = [last_status EXCEPT ![t] = "error"]
    /\ tpc' = [tpc EXCEPT ![t] = "sleeping"]
    /\ nsleeps' = [nsleeps EXCEPT ![t] = @ + 1]
    /\ UNCHANGED <<sessions, retry_limit, texts, tretry, nrequests,
                   n429, tresult, completed, gathered, gpc>>
    /\ UNCHANGED <<nselected, tlast, self_params, tparams>>
    /\ UNCHANGED <<self_source, self_target, tsource, ttarget>>
    /\ UNCHANGED <<codec_vars, batch_vars, orch_vars, ai_vars>>

\* Another non-success status, or a 200 whose body is not a non-empty list
\* with a non-empty first element: _request raises TranslationError
RespondError(t) ==
    /\ tpc[t] = "in_flight"
    /\ Release(t)
    /\ last_status' = [last_status EXCEPT ![t] = "error"]
    /\ tpc' = [tpc EXCEPT ![t] = "raised_TranslationError"]
    /\ UNCHANGED <<sessions, retry_limit, texts, tretry, nrequests,
                   nsleeps, n429, tresult, completed, gathered, gpc>>
    /\ UNCHANGED <<nselected, tlast, self_params, tparams>>
    /\ UNCHANGED <<self_source, self_target, tsource, ttarget>>
    /\ UNCHANGED <<codec_vars, batch_vars, orch_vars, ai_vars>>

\* session.get raises (connection error, timeout): "async with semaphore"
\* releases the permit and the exception leaves _request and translate
RequestRaises(t) ==
    /\ tpc[t] = "in_flight"
    /\ Release(t)
    /\ last_status' = [last_status EXCEPT ![t] = "exception"]
    /\ tpc' = [tpc EXCEPT ![t] = "raised_ClientError"]
    /\ UNCHANGED <<sessions, retry_limit, texts, tretry, nrequests,
                   nsleeps, n429, tresult, completed, gathered, gpc>>
    /\ UNCHANGED <<nselected, tlast, self_params, tparams>>
    /\ UNCHANGED <<self_source, self_target, tsource, ttarget>>
    /\ UNCHANGED <<codec_vars, batch_vars, orch_vars, ai_vars>>

\* asyncio.sleep is over: "return await self.translate(text, source, target,
\* retry_count=retry_count)", which checks the input again and enters _request
Wake(t) ==
    /\ tpc[t] = "sleeping"
    /\ IsInputValid(texts[t])
    /\ EnterRequest(t)
    /\ UNCHANGED <<retry_limit, texts, tretry, nsleeps, n429, last_status, tresult,
                   completed, gathered, gpc>>
    /\ UNCHANGED <<self_source, self_target, tsource, ttarget>>
    /\ UNCHANGED <<codec_vars, batch_vars, orch_vars, ai_vars>>

\* The results in the order in which the calls completed
GatherResults_CompletionOrder == [i \in Tasks |-> tresult[completed[i]]]

\* The list asyncio.gather builds: the children's results in argument order
GatherResults == [i \in Tasks |-> tresult[i]]

\* translate_batch: gather returns once every translate call has returned
GatherReturn ==
    /\ gpc = "pending"
    /\ \A t \in Tasks : tpc[t] = "returned"
    /\ gathered' = GatherResults
    /\ gpc' = "returned"
    /\ UNCHANGED <<sessions, permits, retry_limit, texts, tpc, tsession, tretry,
                   nrequests, nsleeps, n429, last_status, tresult, completed>>
    /\ UNCHANGED <<nselected, tlast, self_params, tparams>>
    /\ UNCHANGED <<self_source, self_target, tsource, ttarget>>
    /\ UNCHANGED <<codec_vars, batch_vars, orch_vars, ai_vars>>

Raised(t) ==
    tpc[t] \in {"raised_ValueError", "raised_TooManyRequests",
               "raised_TranslationError", "raised_ClientError"}

\* translate_batch: gather raises the exception of a translate call
GatherRaise ==
    /\ gpc = "pending"
    /\ \E t \in Tasks : Raised(t)
    /\ gpc' = "raised"
    /\ UNCHANGED gathered
    /\ UNCHANGED <<sessions, permits, retry_limit, texts, tpc, tsession, tretry,
                   nrequests, nsleeps, n429, last_status, tresult, completed>>
    /\ UNCHANGED <<nselected, tlast, self_params, tparams>>
    /\ UNCHANGED <<self_source, self_target, tsource, ttarget>>
    /\ UNCHANGED <<codec_vars, batch_vars, orch_vars, ai_vars>>

ClientNext ==
    \/ \E t \in Tasks : Call(t)
    \/ \E t \in Tasks : Acquire(t)
    \/ \E t \in Tasks : RespondOk(t)
    \/ \E t \in Tasks : Respond429(t)
    \/ \E t \in Tasks : RespondError(t)
    \/ \E t \in Tasks : RequestRaises(t)
    \/ \E t \in Tasks : Wake(t)
    \/ GatherReturn
    \/ GatherRaise

\* The next step of the coroutine of task t: the event loop runs it, the
\* semaphore wakes it, the request is answered or the session's timeout
\* raises, the sleep ends
TaskStep(t) ==
    \/ Call(t)
    \/ Acquire(t)
    \/ RespondOk(t)
    \/ Respond429(t)
    \/ RespondError(t)
    \/ RequestRaises(t)
    \/ Wake(t)

\* Every coroutine that can go on does go on
ClientFairness == \A t \in Tasks : WF_vars(TaskStep(t))

(***************************************************************************)
(* options.py: BaseTranslateOpts, and google/translate.py: translate       *)
(*                                                                         *)
(* A Path is the sequence of its components.  A record of a file is named  *)
(* by its message; its decoded translation is the pair of that name and    *)
(* the target locale.                                                      *)
(***************************************************************************)

MaxLocales == 3     \* length of the requested target_locales list
MaxFiles == 2       \* .ftl files under the origin locale directory
MaxRecords == 3     \* messages of one file

\* Some members of the Locale enum
Locales == {"ru", "en", "de"}

locales_dir == <<"locales">>

\* The relative paths parse_ftl_files finds, one in a sub-directory
FilePaths == << <<"a.ftl">>, <<"sub", "b.ftl">>, <<"sub", "c.ftl">> >>

\* The names of the messages of a file, in source order
RecordNames == <<"m1", "m2", "m3", "m4">>

Range(seq) == { seq[i] : i \in DOMAIN seq }

\* The lists that list(set(...)) can build of the members of S
ListsOfSet(S) ==
    { l \in [1..Cardinality(S) -> S] : \A i, j \in 1..Cardinality(S) : l[i] = l[j] => i = j }

\* target_locales kept as it was passed
model_post_init_NoFilter(target_locales, origin_locale) == {target_locales}

\* model_post_init: list(set(filter(lambda x: x != self.origin_locale,
\* self.target_locales))), in any of the orders a set may be listed in
model_post_init(target_locales, origin_locale) ==
    ListsOfSet({ x \in Range(target_locales) : x # origin_locale })

\* Path(self.locales_dir, self.origin_locale)
origin_locale_dir(self) == self.locales_dir \o <<self.origin_locale>>

\* BaseTranslateOpts.is_applicable, on file.name
is_applicable(self, file) ==
    LET name == file[Len(file)] IN
    IF self.include_files # <<>> /\ name \notin Range(self.include_files) THEN FALSE
    ELSE IF self.exclude_files # <<>> /\ name \in Range(self.exclude_files) THEN FALSE
    ELSE TRUE

\* BaseTranslateOpts.create_target_file: file.relative_to(origin_locale_dir)
\* raises ValueError, or the path under the target locale is returned
create_target_file(self, file, target_locale) ==
    IF StartsWith(file, origin_locale_dir(self))
    THEN [raised |-> FALSE,
          new_file |-> self.locales_dir \o <<target_locale>>
                       \o Drop(file, Len(origin_locale_dir(self)))]
    ELSE [raised |-> TRUE, new_file |-> <<>>]

\* parse_ftl_files: every .ftl file below locale_dir, as locale_dir / path
parse_ftl_files(locale_dir) == [i \in DOMAIN tree |-> locale_dir \o tree[i].path]

\* MessageInfo.get_message_info(parse(file.read_text())): the records of file
RecordsOf(file) ==
    LET i == CHOOSE i \in DOMAIN tree : origin_locale_dir(opts) \o tree[i].path = file
    IN  tree[i].records

\* Only the slices that are full: range(0, len - size + 1, size)
BatchesOf_FullOnly(messages_info, size) ==
    [k \in 1..(Len(messages_info) \div size) |->
        SubSeq(messages_info, (k - 1) * size + 1, k * size)]

\* [messages_info[i : i + size] for i in range(0, len(messages_info), size)]
BatchesOf(messages_info, size) ==
    [k \in 1..((Len(messages_info) + size - 1) \div size) |->
        SubSeq(messages_info, (k - 1) * size + 1,
               IF k * size < Len(messages_info) THEN k * size ELSE Len(messages_info))]

\* info.to_fluent() of every record of a translated batch, each followed by
\* a blank line
DecodedBatch(batch, target_locale) ==
    [i \in DOMAIN batch |->
        [name |-> batch[i], locale |-> target_locale, end |-> <<"\n", "\n">>]]

\* A batch whose records are decoded before their text is overwritten
BatchEvents_DecodeFirst(batch) ==
    [i \in DOMAIN batch |-> [kind |-> "decode", name |-> batch[i]]]
    \o [i \in DOMAIN batch |-> [kind |-> "overwrite", name |-> batch[i]]]

\* What one batch goes through: translate_concatenated_batch overwrites the
\* text of every record ("info.text = translated_text"), then translate
\* decodes every record ("info.to_fluent()")
BatchEvents(batch) ==
    [i \in DOMAIN batch |-> [kind |-> "overwrite", name |-> batch[i]]]
    \o [i \in DOMAIN batch |-> [kind |-> "decode", name |-> batch[i]]]

\* "await f.write(translated_text)"
WriteEvent == [kind |-> "write", name |-> ""]

\* "for target_locale in opts.target_locales" has a locale left
HasLocale == li <= Len(opts.target_locales)

\* "for file in ftl_files" has a file left
HasFile == fi <= Len(ftl_files)

\* An applicable file: create_target_file, read, parse, extract, chunk, then
\* the first batch is sent, or the file is written when it has no record
StartFile ==
    /\ opc = "file"
    /\ HasLocale /\ HasFile
    /\ is_applicable(opts, ftl_files[fi])
    /\ LET c == create_target_file(opts, ftl_files[fi], opts.target_locales[li]) IN
       IF c.raised
       THEN /\ opc' = "raised"
            /\ oerror' = "ValueError"
            /\ g_translator' = "closed"
            /\ UNCHANGED <<target_file, batches, bi, file_text, events>>
       ELSE /\ target_file' = c.new_file
            /\ events' = <<>>
            /\ batches' = BatchesOf(RecordsOf(ftl_files[fi]), opts.translate_batch_size)
            /\ bi' = 1
            /\ file_text' = <<>>
            /\ opc' = IF batches' = <<>> THEN "write" ELSE "batch"
            /\ UNCHANGED <<oerror, g_translator>>
    /\ UNCHANGED <<requested, opts, tree, ftl_files, li, fi, written>>
    /\ UNCHANGED <<codec_vars, batch_vars, client_vars, ai_vars>>

\* "if not opts.is_applicable(file): continue"
SkipFile ==
    /\ opc = "file"
    /\ HasLocale /\ HasFile
    /\ ~is_applicable(opts, ftl_files[fi])
    /\ fi' = fi + 1
    /\ UNCHANGED <<requested, opts, tree, ftl_files, li, target_file, batches, bi,
                   file_text, written, opc, oerror, g_translator, events>>
    /\ UNCHANGED <<codec_vars, batch_vars, client_vars, ai_vars>>

\* The files of one locale are done: the next target locale
NextLocale ==
    /\ opc = "file"
    /\ HasLocale /\ ~HasFile
    /\ li' = li + 1
    /\ fi' = 1
    /\ UNCHANGED <<requested, opts, tree, ftl_files, target_file, batches, bi,
                   file_text, written, opc, oerror, g_translator, events>>
    /\ UNCHANGED <<codec_vars, batch_vars, client_vars, ai_vars>>

\* translate_concatenated_batch returns: the batch is decoded and appended
BatchReturns ==
    /\ opc = "batch"
    /\ file_text' = file_text \o DecodedBatch(batches[bi], opts.target_locales[li])
    /\ bi' = bi + 1
    /\ events' = events \o BatchEvents(batches[bi])
    /\ opc' = IF bi = Len(batches) THEN "write" ELSE "batch"
    /\ UNCHANGED <<requested, opts, tree, ftl_files, li, fi, target_file, batches,
                   written, oerror, g_translator>>
    /\ UNCHANGED <<codec_vars, batch_vars, client_vars, ai_vars>>

\* A failed batch whose file is written with what was translated so far
BatchRaises_WritesPartial ==
    /\ opc = "batch"
    /\ \E e \in {"ValueError", "TooManyRequestsError", "TranslationError", "IndexError"} :
           oerror' = e
    /\ written' = Append(written, [source |-> ftl_files[fi],
                                   locale |-> opts.target_locales[li],
                                   file |-> target_file,
                                   text |-> file_text])
    /\ opc' = "raised"
    /\ g_translator' = "closed"
    /\ UNCHANGED <<requested, opts, tree, ftl_files, li, fi, target_file, batches, bi,
                   file_text, events>>
    /\ UNCHANGED <<codec_vars, batch_vars, client_vars, ai_vars>>

\* translate_concatenated_batch raises (invalid input, retries exhausted,
\* provider error, missing piece): nothing in translate catches it, the
\* "async with" closes the translator and the exception leaves translate
BatchRaises ==
    /\ opc = "batch"
    /\ \E e \in {"ValueError", "TooManyRequestsError", "TranslationError", "IndexError"} :
           oerror' = e
    /\ opc' = "raised"
    /\ g_translator' = "closed"
    /\ UNCHANGED <<requested, opts, tree, ftl_files, li, fi, target_file, batches, bi,
                   file_text, written, events>>
    /\ UNCHANGED <<codec_vars, batch_vars, client_vars, ai_vars>>

\* All batches are done: the target file is opened with "w" and written
WriteFile ==
    /\ opc = "write"
    /\ written' = Append(written, [source |-> ftl_files[fi],
                                   locale |-> opts.target_locales[li],
                                   file |-> target_file,
                                   text |-> file_text])
    /\ events' = Append(events, WriteEvent)
    /\ fi' = fi + 1
    /\ opc' = "file"
    /\ UNCHANGED <<requested, opts, tree, ftl_files, li, target_file, batches, bi,
                   file_text, oerror, g_translator>>
    /\ UNCHANGED <<codec_vars, batch_vars, client_vars, ai_vars>>

\* Every target locale is done: the translator is closed, translate returns
Finish ==
    /\ opc = "file"
    /\ ~HasLocale
    /\ opc' = "done"
    /\ g_translator' = "closed"
    /\ UNCHANGED <<requested, opts, tree, ftl_files, li, fi, target_file, batches, bi,
                   file_text, written, oerror, events>>
    /\ UNCHANGED <<codec_vars, batch_vars, client_vars, ai_vars>>

OrchNext ==
    \/ StartFile
    \/ SkipFile
    \/ NextLocale
    \/ BatchReturns
    \/ BatchRaises
    \/ WriteFile
    \/ Finish

(***************************************************************************)
(* ai/batch_job.py, ai/translator.py, ai/translate.py: one batch job for   *)
(* all files.  A line of the output file is the record of its custom_id    *)
(* and of the content of its first choice.                                 *)
(***************************************************************************)

MaxObjs == 3        \* TranslateObj objects handed to translate_batch

\* The file texts of the objects, in the order translate builds them
ObjData == <<"f1", "f2", "f3", "f4">>

\* f"id-{index}" for index counting from 1
CustomId(index) == <<"i", "d", "-">> \o Decimal(index)

\* The provider's answer to the request made for a file text
AnswerTo(data) == <<"translation of", data>>

\* The output files a completed job may have: one line for each request of
\* a subset of the requests, in any order
Outputs(batch) ==
    { [k \in DOMAIN order |->
          [custom_id |-> CustomId(order[k]), content |-> AnswerTo(batch[order[k]].data)]] :
      order \in { o \in UNION { [1..m -> DOMAIN batch] : m \in 0..Len(batch) } :
                    \A i, j \in DOMAIN o : o[i] = o[j] => i = j } }

\* The statuses a batch job ends in
TerminalStatuses == {"completed", "failed", "expired", "cancelled"}

\* create_translate_batch: the prompts, the batch file with one task per
\* object, the job
Submit ==
    /\ apc = "start"
    /\ job_status' = "validating"
    /\ apc' = "polling"
    /\ UNCHANGED <<ai_batch, output, results, ai_written>>
    /\ UNCHANGED <<codec_vars, batch_vars, client_vars, orch_vars>>

\* The provider moves the job on; a job that completes has its output file
JobAdvance ==
    /\ \/ /\ job_status = "validating"
          /\ job_status' \in {"in_progress", "failed"}
          /\ UNCHANGED output
       \/ /\ job_status = "in_progress"
          /\ job_status' \in {"finalizing", "expired", "cancelling"}
          /\ UNCHANGED output
       \/ /\ job_status = "cancelling"
          /\ job_status' = "cancelled"
          /\ UNCHANGED output
       \/ /\ job_status = "finalizing"
          /\ job_status' = "completed"
          /\ output' \in Outputs(ai_batch)
    /\ UNCHANGED <<ai_batch, results, apc, ai_written>>
    /\ UNCHANGED <<codec_vars, batch_vars, client_vars, orch_vars>>

\* parse_batch_content: the content of every line, in the order of the lines
parse_batch_content(content) == [k \in DOMAIN content |-> content[k].content]

\* while_get_batch_content: "if batch_job.status == "completed": ... return
\* content", else "await asyncio.sleep(interval)"
PollNext(status) == IF status = "completed" THEN "fetched" ELSE "sleeping"

\* One round of while_get_batch_content: client.batches.retrieve, then the
\* content of the output file is fetched and parsed, or the loop sleeps
Poll ==
    /\ apc = "polling"
    /\ apc' = PollNext(job_status)
    /\ results' = IF apc' = "fetched" THEN parse_batch_content(output) ELSE results
    /\ UNCHANGED <<ai_batch, job_status, output, ai_written>>
    /\ UNCHANGED <<codec_vars, batch_vars, client_vars, orch_vars>>

\* asyncio.sleep(interval) is over: the next round
PollWake ==
    /\ apc = "sleeping"
    /\ apc' = "polling"
    /\ UNCHANGED <<ai_batch, job_status, output, results, ai_written>>
    /\ UNCHANGED <<codec_vars, batch_vars, client_vars, orch_vars>>

\* "for i, obj in enumerate(batch): obj.translated_data = results[i]", up to
\* the first i that has no result
AssignedResults(batch, lines) ==
    [i \in DOMAIN batch |->
        IF i <= Len(lines) THEN [batch[i] EXCEPT !.translated_data = lines[i]]
        ELSE batch[i]]

\* translate_batch after the polling: assign, then return or IndexError
AssignResults ==
    /\ apc = "fetched"
    /\ ai_batch' = AssignedResults(ai_batch, results)
    /\ apc' = IF Len(results) < Len(ai_batch) THEN "raised_IndexError" ELSE "returned"
    /\ UNCHANGED <<job_status, output, results, ai_written>>
    /\ UNCHANGED <<codec_vars, batch_vars, client_vars, orch_vars>>

\* ai translate: "for obj in translated_batch": the next target file is
\* written with obj.translated_data
WriteObj ==
    /\ apc = "returned"
    /\ Len(ai_written) < Len(ai_batch)
    /\ ai_written' = Append(ai_written,
           [target_file |-> Len(ai_written) + 1,
            text |-> ai_batch[Len(ai_written) + 1].translated_data])
    /\ UNCHANGED <<ai_batch, job_status, output, results, apc>>
    /\ UNCHANGED <<codec_vars, batch_vars, client_vars, orch_vars>>

\* Every file is written: the translator is closed, translate returns
AiFinish ==
    /\ apc = "returned"
    /\ Len(ai_written) = Len(ai_batch)
    /\ apc' = "done"
    /\ UNCHANGED <<ai_batch, job_status, output, results, ai_written>>
    /\ UNCHANGED <<codec_vars, batch_vars, client_vars, orch_vars>>

\* The steps of the program, as opposed to those of the provider's job
AiStep ==
    \/ Submit
    \/ Poll
    \/ PollWake
    \/ AssignResults
    \/ WriteObj
    \/ AiFinish

AiNext ==
    \/ Submit
    \/ JobAdvance
    \/ Poll
    \/ PollWake
    \/ AssignResults
    \/ WriteObj
    \/ AiFinish

(***************************************************************************)
(* Specifications                                                          *)
(***************************************************************************)

\* One parsed message in front of the extractor; no batch, no translator
CodecInit ==
    /\ entry \in Messages
    /\ info = NoInfo
    /\ cpc = "parsed"
    /\ fluent = <<>>
    /\ msg_info_batch = <<>>
    /\ batch_before = <<>>
    /\ batch_text = <<>>
    /\ translated_raw = <<>>
    /\ translated_batch = <<>>
    /\ bpc = "off"
    /\ sessions = <<>>
    /\ permits = <<>>
    /\ retry_limit = 0
    /\ texts = <<>>
    /\ tpc = <<>>
    /\ tsession = <<>>
    /\ tretry = <<>>
    /\ nrequests = <<>>
    /\ nsleeps = <<>>
    /\ n429 = <<>>
    /\ last_status = <<>>
    /\ tresult = <<>>
    /\ completed = <<>>
    /\ gathered = <<>>
    /\ gpc = "off"
    /\ nselected = <<>>
    /\ tlast = <<>>
    /\ self_source = <<>>
    /\ self_target = <<>>
    /\ self_params = <<>>
    /\ tsource = <<>>
    /\ ttarget = <<>>
    /\ tparams = <<>>
    /\ requested = <<>>
    /\ opts = <<>>
    /\ tree = <<>>
    /\ ftl_files = <<>>
    /\ li = 0
    /\ fi = 0
    /\ target_file = <<>>
    /\ batches = <<>>
    /\ bi = 0
    /\ file_text = <<>>
    /\ written = <<>>
    /\ opc = "off"
    /\ oerror = "None"
    /\ g_translator = "closed"
    /\ events = <<>>
    /\ ai_batch = <<>>
    /\ job_status = "none"
    /\ output = <<>>
    /\ results = <<>>
    /\ apc = "off"
    /\ ai_written = <<>>

SpecCodec == CodecInit /\ [][CodecNext]_vars

\* translate_concatenated_batch is called with a batch of records
BatchInit ==
    /\ entry = Message(<<"k">>, None, <<>>)
    /\ info = NoInfo
    /\ cpc = "off"
    /\ fluent = <<>>
    /\ msg_info_batch \in Batches
    /\ batch_before = msg_info_batch
    /\ batch_text = <<>>
    /\ translated_raw = <<>>
    /\ translated_batch = <<>>
    /\ bpc = "start"
    /\ sessions = <<>>
    /\ permits = <<>>
    /\ retry_limit = 0
    /\ texts = <<>>
    /\ tpc = <<>>
    /\ tsession = <<>>
    /\ tretry = <<>>
    /\ nrequests = <<>>
    /\ nsleeps = <<>>
    /\ n429 = <<>>
    /\ last_status = <<>>
    /\ tresult = <<>>
    /\ completed = <<>>
    /\ gathered = <<>>
    /\ gpc = "off"
    /\ nselected = <<>>
    /\ tlast = <<>>
    /\ self_source = <<>>
    /\ self_target = <<>>
    /\ self_params = <<>>
    /\ tsource = <<>>
    /\ ttarget = <<>>
    /\ tparams = <<>>
    /\ requested = <<>>
    /\ opts = <<>>
    /\ tree = <<>>
    /\ ftl_files = <<>>
    /\ li = 0
    /\ fi = 0
    /\ target_file = <<>>
    /\ batches = <<>>
    /\ bi = 0
    /\ file_text = <<>>
    /\ written = <<>>
    /\ opc = "off"
    /\ oerror = "None"
    /\ g_translator = "closed"
    /\ events = <<>>
    /\ ai_batch = <<>>
    /\ job_status = "none"
    /\ output = <<>>
    /\ results = <<>>
    /\ apc = "off"
    /\ ai_written = <<>>

SpecBatch == BatchInit /\ [][BatchNext]_vars

\* GoogleTranslator.__init__, then translate_batch creates one translate
\* coroutine per text of the batch
ClientInit ==
    /\ entry = Message(<<"k">>, None, <<>>)
    /\ info = NoInfo
    /\ cpc = "off"
    /\ fluent = <<>>
    /\ msg_info_batch = <<>>
    /\ batch_before = <<>>
    /\ batch_text = <<>>
    /\ translated_raw = <<>>
    /\ translated_batch = <<>>
    /\ bpc = "off"
    /\ sessions = [i \in 1..NumSessions |-> i]
    /\ permits = [s \in SessionIds |-> Limit]
    /\ retry_limit \in {0, MaxRetry}
    /\ texts \in [Tasks -> TaskTexts]
    /\ tpc = [t \in Tasks |-> "start"]
    /\ tsession = [t \in Tasks |-> NoSession]
    /\ tretry = [t \in Tasks |-> NoRetryCount]
    /\ nrequests = [t \in Tasks |-> 0]
    /\ nsleeps = [t \in Tasks |-> 0]
    /\ n429 = [t \in Tasks |-> 0]
    /\ last_status = [t \in Tasks |-> "none"]
    /\ tresult = [t \in Tasks |-> <<>>]
    /\ completed = <<>>
    /\ gathered = <<>>
    /\ gpc = "pending"
    /\ nselected = [s \in SessionIds |-> 0]
    /\ tlast = [t \in Tasks |-> NoSession]
    /\ self_source = <<"r", "u">>
    /\ self_target = <<"e", "n">>
    /\ self_params = InitParams(self_source, self_target)
    /\ tsource = [t \in Tasks |-> NoLanguage]
    /\ ttarget = [t \in Tasks |-> NoLanguage]
    /\ tparams = [t \in Tasks |-> NoParams]
    /\ requested = <<>>
    /\ opts = <<>>
    /\ tree = <<>>
    /\ ftl_files = <<>>
    /\ li = 0
    /\ fi = 0
    /\ target_file = <<>>
    /\ batches = <<>>
    /\ bi = 0
    /\ file_text = <<>>
    /\ written = <<>>
    /\ opc = "off"
    /\ oerror = "None"
    /\ g_translator = "closed"
    /\ events = <<>>
    /\ ai_batch = <<>>
    /\ job_status = "none"
    /\ output = <<>>
    /\ results = <<>>
    /\ apc = "off"
    /\ ai_written = <<>>

SpecClient == ClientInit /\ [][ClientNext]_vars

\* The same calls, every text the same word or empty, with every coroutine
\* going on
TermInit ==
    /\ entry = Message(<<"k">>, None, <<>>)
    /\ info = NoInfo
    /\ cpc = "off"
    /\ fluent = <<>>
    /\ msg_info_batch = <<>>
    /\ batch_before = <<>>
    /\ batch_text = <<>>
    /\ translated_raw = <<>>
    /\ translated_batch = <<>>
    /\ bpc = "off"
    /\ sessions = [i \in 1..NumSessions |-> i]
    /\ permits = [s \in SessionIds |-> Limit]
    /\ retry_limit \in {0, MaxRetry}
    /\ texts \in [Tasks -> {<<"a">>, <<>>}]
    /\ tpc = [t \in Tasks |-> "start"]
    /\ tsession = [t \in Tasks |-> NoSession]
    /\ tretry = [t \in Tasks |-> NoRetryCount]
    /\ nrequests = [t \in Tasks |-> 0]
    /\ nsleeps = [t \in Tasks |-> 0]
    /\ n429 = [t \in Tasks |-> 0]
    /\ last_status = [t \in Tasks |-> "none"]
    /\ tresult = [t \in Tasks |-> <<>>]
    /\ completed = <<>>
    /\ gathered = <<>>
    /\ gpc = "pending"
    /\ nselected = [s \in SessionIds |-> 0]
    /\ tlast = [t \in Tasks |-> NoSession]
    /\ self_source = <<"r", "u">>
    /\ self_target = <<"e", "n">>
    /\ self_params = InitParams(self_source, self_target)
    /\ tsource = [t \in Tasks |-> NoLanguage]
    /\ ttarget = [t \in Tasks |-> NoLanguage]
    /\ tparams = [t \in Tasks |-> NoParams]
    /\ requested = <<>>
    /\ opts = <<>>
    /\ tree = <<>>
    /\ ftl_files = <<>>
    /\ li = 0
    /\ fi = 0
    /\ target_file = <<>>
    /\ batches = <<>>
    /\ bi = 0
    /\ file_text = <<>>
    /\ written = <<>>
    /\ opc = "off"
    /\ oerror = "None"
    /\ g_translator = "closed"
    /\ events = <<>>
    /\ ai_batch = <<>>
    /\ job_status = "none"
    /\ output = <<>>
    /\ results = <<>>
    /\ apc = "off"
    /\ ai_written = <<>>

SpecTerm == TermInit /\ [][ClientNext]_vars /\ ClientFairness

\* The text arguments of calls that pass the input check: a word with
\* leading whitespace, and a blank
ParamTexts == { <<" ", "b">>, <<" ">> }

\* The source and target arguments of a call: none, the target alone (as
\* translate_concatenated_batch passes it), both
Overrides ==
    { [source |-> NoLanguage, target |-> NoLanguage],
      [source |-> NoLanguage, target |-> << <<"d", "e">> >>],
      [source |-> << <<"e", "n">> >>, target |-> << <<"u", "k">> >>] }

\* Concurrent translate calls on one translator, each with its own text,
\* source and target arguments
ParamsInit ==
    /\ entry = Message(<<"k">>, None, <<>>)
    /\ info = NoInfo
    /\ cpc = "off"
    /\ fluent = <<>>
    /\ msg_info_batch = <<>>
    /\ batch_before = <<>>
    /\ batch_text = <<>>
    /\ translated_raw = <<>>
    /\ translated_batch = <<>>
    /\ bpc = "off"
    /\ sessions = [i \in 1..NumSessions |-> i]
    /\ permits = [s \in SessionIds |-> Limit]
    /\ retry_limit = 0
    /\ texts \in [Tasks -> ParamTexts]
    /\ tpc = [t \in Tasks |-> "start"]
    /\ tsession = [t \in Tasks |-> NoSession]
    /\ tretry = [t \in Tasks |-> NoRetryCount]
    /\ nrequests = [t \in Tasks |-> 0]
    /\ nsleeps = [t \in Tasks |-> 0]
    /\ n429 = [t \in Tasks |-> 0]
    /\ last_status = [t \in Tasks |-> "none"]
    /\ tresult = [t \in Tasks |-> <<>>]
    /\ completed = <<>>
    /\ gathered = <<>>
    /\ gpc = "pending"
    /\ nselected = [s \in SessionIds |-> 0]
    /\ tlast = [t \in Tasks |-> NoSession]
    /\ self_source = <<"r", "u">>
    /\ self_target = <<"e", "n">>
    /\ self_params = InitParams(self_source, self_target)
    /\ \E o \in [Tasks -> Overrides] :
          /\ tsource = [t \in Tasks |-> o[t].source]
          /\ ttarget = [t \in Tasks |-> o[t].target]
    /\ tparams = [t \in Tasks |-> NoParams]
    /\ requested = <<>>
    /\ opts = <<>>
    /\ tree = <<>>
    /\ ftl_files = <<>>
    /\ li = 0
    /\ fi = 0
    /\ target_file = <<>>
    /\ batches = <<>>
    /\ bi = 0
    /\ file_text = <<>>
    /\ written = <<>>
    /\ opc = "off"
    /\ oerror = "None"
    /\ g_translator = "closed"
    /\ events = <<>>
    /\ ai_batch = <<>>
    /\ job_status = "none"
    /\ output = <<>>
    /\ results = <<>>
    /\ apc = "off"
    /\ ai_written = <<>>

SpecParams == ParamsInit /\ [][ClientNext]_vars

\* An options object is constructed over a locales directory, and translate
\* starts: parse_ftl_files, then "async with GoogleTranslator(...)"
OrchInit ==
    /\ entry = Message(<<"k">>, None, <<>>)
    /\ info = NoInfo
    /\ cpc = "off"
    /\ fluent = <<>>
    /\ msg_info_batch = <<>>
    /\ batch_before = <<>>
    /\ batch_text = <<>>
    /\ translated_raw = <<>>
    /\ translated_batch = <<>>
    /\ bpc = "off"
    /\ sessions = <<>>
    /\ permits = <<>>
    /\ retry_limit = 0
    /\ texts = <<>>
    /\ tpc = <<>>
    /\ tsession = <<>>
    /\ tretry = <<>>
    /\ nrequests = <<>>
    /\ nsleeps = <<>>
    /\ n429 = <<>>
    /\ last_status = <<>>
    /\ tresult = <<>>
    /\ completed = <<>>
    /\ gathered = <<>>
    /\ gpc = "off"
    /\ nselected = <<>>
    /\ tlast = <<>>
    /\ self_source = <<>>
    /\ self_target = <<>>
    /\ self_params = <<>>
    /\ tsource = <<>>
    /\ ttarget = <<>>
    /\ tparams = <<>>
    /\ requested \in UNION { [1..n -> Locales] : n \in 0..MaxLocales }
    /\ \E origin_locale \in {"ru", "en"},
          target_locales \in UNION { [1..n -> Locales] : n \in 0..MaxLocales },
          files \in { <<>>, <<"a.ftl">> },
          excluded \in BOOLEAN,
          size \in 1..MaxRecords :
          /\ target_locales \in model_post_init(requested, origin_locale)
          /\ opts = [locales_dir |-> locales_dir,
                     origin_locale |-> origin_locale,
                     target_locales |-> target_locales,
                     include_files |-> IF excluded THEN <<>> ELSE files,
                     exclude_files |-> IF excluded THEN files ELSE <<>>,
                     translate_batch_size |-> size]
    /\ \E n \in 0..MaxFiles, k \in 0..MaxRecords :
          tree = [i \in 1..n |-> [path |-> FilePaths[i],
                                  records |-> SubSeq(RecordNames, 1, k)]]
    /\ ftl_files = parse_ftl_files(origin_locale_dir(opts))
    /\ li = 1
    /\ fi = 1
    /\ target_file = <<>>
    /\ batches = <<>>
    /\ bi = 0
    /\ file_text = <<>>
    /\ written = <<>>
    /\ opc = "file"
    /\ oerror = "None"
    /\ g_translator = "open"
    /\ events = <<>>
    /\ ai_batch = <<>>
    /\ job_status = "none"
    /\ output = <<>>
    /\ results = <<>>
    /\ apc = "off"
    /\ ai_written = <<>>

SpecOrch == OrchInit /\ [][OrchNext]_vars

\* The ai translate has built one TranslateObj per target locale and
\* applicable file and calls a_translator.translate_batch(translate_objs)
AiInit ==
    /\ entry = Message(<<"k">>, None, <<>>)
    /\ info = NoInfo
    /\ cpc = "off"
    /\ fluent = <<>>
    /\ msg_info_batch = <<>>
    /\ batch_before = <<>>
    /\ batch_text = <<>>
    /\ translated_raw = <<>>
    /\ translated_batch = <<>>
    /\ bpc = "off"
    /\ sessions = <<>>
    /\ permits = <<>>
    /\ retry_limit = 0
    /\ texts = <<>>
    /\ tpc = <<>>
    /\ tsession = <<>>
    /\ tretry = <<>>
    /\ nrequests = <<>>
    /\ nsleeps = <<>>
    /\ n429 = <<>>
    /\ last_status = <<>>
    /\ tresult = <<>>
    /\ completed = <<>>
    /\ gathered = <<>>
    /\ gpc = "off"
    /\ nselected = <<>>
    /\ tlast = <<>>
    /\ self_source = <<>>
    /\ self_target = <<>>
    /\ self_params = <<>>
    /\ tsource = <<>>
    /\ ttarget = <<>>
    /\ tparams = <<>>
    /\ requested = <<>>
    /\ opts = <<>>
    /\ tree = <<>>
    /\ ftl_files = <<>>
    /\ li = 0
    /\ fi = 0
    /\ target_file = <<>>
    /\ batches = <<>>
    /\ bi = 0
    /\ file_text = <<>>
    /\ written = <<>>
    /\ opc = "off"
    /\ oerror = "None"
    /\ g_translator = "closed"
    /\ events = <<>>
    /\ \E n \in 1..MaxObjs :
          ai_batch = [i \in 1..n |-> [data |-> ObjData[i], translated_data |-> <<>>]]
    /\ job_status = "none"
    /\ output = <<>>
    /\ results = <<>>
    /\ apc = "start"
    /\ ai_written = <<>>

SpecAi == AiInit /\ [][AiNext]_vars /\ WF_vars(AiStep)

(***************************************************************************)
(* Helpers of the properties                                               *)
(***************************************************************************)

IsDigit(c) == c \in {"0", "1", "2", "3", "4", "5", "6", "7", "8", "9"}

DigitValue(c) == CHOOSE d \in 0..9 : Digit(d) = c

\* The positions of text at which an index token {i} starts (i below 10, as
\* every index is within the bounds on the number of elements)
TokenPositions(text) ==
    { p \in 1..(Len(text) - 2) :
        text[p] = "{" /\ IsDigit(text[p + 1]) /\ text[p + 2] = "}" }

\* The indices of the tokens of text
TokenIndices(text) == { DigitValue(text[p + 1]) : p \in TokenPositions(text) }

\* The position in text of the first token with index i
FirstPosition(text, i) ==
    CHOOSE p \in TokenPositions(text) :
        /\ DigitValue(text[p + 1]) = i
        /\ \A q \in TokenPositions(text) : DigitValue(text[q + 1]) = i => p <= q

IsReference(expression) ==
    expression.type \in {"VariableReference", "TermReference", "MessageReference"}

\* The tokens replace_variables_with_indexes emits for one pattern: element k,
\* a Placeable of a reference, gets the number of Placeables before it
PatternTokens(pattern) ==
    { [index |-> Cardinality({ j \in 1..(k - 1) : pattern.elements[j].type = "Placeable" }),
       expression |-> pattern.elements[k].expression] :
      k \in { k \in DOMAIN pattern.elements :
                /\ pattern.elements[k].type = "Placeable"
                /\ IsReference(pattern.elements[k].expression) } }

\* The tokens get_message_info emits into text: those of the body and those
\* of every attribute
EmittedTokens(message) ==
    (IF message.value.type # "None" THEN PatternTokens(message.value) ELSE {})
    \cup UNION { PatternTokens(message.attributes[i].value) :
                 i \in DOMAIN message.attributes }

\* The original markup of a reference
Markup(expression) ==
    IF expression.type = "TermReference"
    THEN <<"{", " ", "-">> \o expression.name \o <<" ", "}">>
    ELSE <<"{", " ", "$">> \o expression.name \o <<" ", "}">>

\* Whether a placeable of the given kind occurs in the elements, at any depth
RECURSIVE HasKind(_, _)
HasKind(elements, kind) ==
    \E i \in DOMAIN elements :
        /\ elements[i].type = "Placeable"
        /\ LET e == elements[i].expression IN
           \/ e.type = kind
           \/ /\ e.type = "SelectExpression"
              /\ \/ e.selector.type = kind
                 \/ \E j \in DOMAIN e.variants : HasKind(e.variants[j].value.elements, kind)

MessageHasKind(message, kind) ==
    \/ HasKind(message.value.elements, kind)
    \/ \E i \in DOMAIN message.attributes :
           HasKind(message.attributes[i].value.elements, kind)

Encoded == cpc \in {"encoded", "decoded_untranslated"}

\* The parts of an encoded text: the body, then one part per attribute
Segments(text) == Split(text, <<"\n", ".">>)

IsLiteral(expression) == expression.type \in {"StringLiteral", "NumberLiteral"}

\* The text of a pattern of text elements, literals and references when
\* only a reference takes an index
RECURSIVE TextWithReferenceIndexes(_, _)
TextWithReferenceIndexes(elements, index) ==
    IF elements = <<>> THEN <<>>
    ELSE LET element == Head(elements) IN
         IF element.type = "TextElement"
         THEN element.value \o TextWithReferenceIndexes(Tail(elements), index)
         ELSE IF IsReference(element.expression)
         THEN IndexToken(index) \o TextWithReferenceIndexes(Tail(elements), index + 1)
         ELSE process_placeable(element, index).original_text
              \o TextWithReferenceIndexes(Tail(elements), index)

InFlight(s) == Cardinality({ t \in Tasks : tpc[t] = "in_flight" /\ tsession[t] = s })

Running(t) == tpc[t] \in {"sleeping", "acquiring", "in_flight"}

EmptyOrTooLong(text) == text = <<>> \/ Len(text) > max_chars

Finished(t) == tpc[t] = "returned" \/ Raised(t)

\* The requests other tasks than t have in flight on session s
InFlightOfOthers(s, t) ==
    Cardinality({ u \in Tasks \ {t} : tpc[u] = "in_flight" /\ tsession[u] = s })

RECURSIVE SumUpTo(_, _)
SumUpTo(f, n) == IF n = 0 THEN 0 ELSE f[n] + SumUpTo(f, n - 1)

\* The request attempts of task t: requests issued, and one it is waiting
\* to issue
Attempts(t) == nrequests[t] + (IF tpc[t] = "acquiring" THEN 1 ELSE 0)

\* The request attempts of the tasks 1..n whose text passes the input check
RECURSIVE AttemptsOfValid(_)
AttemptsOfValid(n) ==
    IF n = 0 THEN 0
    ELSE (IF EmptyOrTooLong(texts[n]) THEN 0 ELSE Attempts(n)) + AttemptsOfValid(n - 1)

\* The number of get_session calls so far
GetSessionCalls == SumUpTo(nselected, NumSessions)

\* The concatenation of the lists of a list
RECURSIVE Flatten(_)
Flatten(lists) == IF lists = <<>> THEN <<>> ELSE Head(lists) \o Flatten(Tail(lists))

\* The positions of the log at which the record was overwritten, decoded
EventsOf(kind, name) ==
    { i \in DOMAIN events : events[i] = [kind |-> kind, name |-> name] }

\* The records of the file the log is about: the file being translated, or
\* the file written last
LoggedRecords ==
    IF opc \in {"batch", "write"} THEN RecordsOf(ftl_files[fi])
    ELSE IF written # <<>> THEN RecordsOf(written[Len(written)].source)
    ELSE <<>>

\* The indices of the tokens of the record's text that all_variables has no
\* name for
StrayIndices(self) == { j \in TokenIndices(self.text) : j >= Len(self.all_variables) }

\* The references of the given kind in the elements: placeables, selectors
\* and the variants' placeables, at any depth
RECURSIVE ReferencesIn(_, _)
ReferencesIn(elements, kind) ==
    UNION { IF elements[i].type # "Placeable" THEN {}
            ELSE LET e == elements[i].expression IN
                 IF e.type = kind THEN {e}
                 ELSE IF e.type = "SelectExpression"
                 THEN (IF e.selector.type = kind THEN {e.selector} ELSE {})
                      \cup UNION { ReferencesIn(e.variants[j].value.elements, kind) :
                                   j \in DOMAIN e.variants }
                 ELSE {}
            : i \in DOMAIN elements }

\* The references that are placeables of the variants of a select
\* expression, at any depth
RECURSIVE VariantReferences(_)
VariantReferences(e) ==
    UNION { LET elements == e.variants[j].value.elements IN
            UNION { IF elements[i].type # "Placeable" THEN {}
                    ELSE IF IsReference(elements[i].expression)
                    THEN {elements[i].expression}
                    ELSE IF elements[i].expression.type = "SelectExpression"
                    THEN VariantReferences(elements[i].expression)
                    ELSE {}
                    : i \in DOMAIN elements }
            : j \in DOMAIN e.variants }

\* The positions of the body at which a select expression stands
SelectPositions(message) ==
    { i \in DOMAIN message.value.elements :
        /\ message.value.elements[i].type = "Placeable"
        /\ message.value.elements[i].expression.type = "SelectExpression" }

\* The request parameters of the call of task t: the languages it was given,
\* else those of the translator, and its text without the surrounding blanks
ExpectedParams(t) ==
    [client |-> <<"g", "t", "x">>,
     dt |-> <<"t">>,
     sl |-> IF tsource[t] = NoLanguage THEN <<"r", "u">> ELSE tsource[t][1],
     tl |-> IF ttarget[t] = NoLanguage THEN <<"e", "n">> ELSE ttarget[t][1],
     q |-> Strip(texts[t])]

\* The lines of the output file that answer the request of object i
LinesOf(i) == { k \in DOMAIN output : output[k].custom_id = CustomId(i) }

NoSeparatorIn(batch) == \A i \in DOMAIN batch : ~Contains(batch[i], separator)

(***************************************************************************)
(* Properties                                                              *)
(***************************************************************************)

\* C1: for a message made of text, variable and term references, literals
\* and select expressions, the encoded record restores to its original text,
\* and to_fluent of the untranslated record is the name, " =", and the
\* original text with continuation lines indented by four spaces.
C1_EncodeDecodeIdentity ==
    (Encoded /\ ~MessageHasKind(entry, "MessageReference")) =>
        /\ restore_text_with_variables(info) = info.original_text
        /\ cpc = "decoded_untranslated" =>
               fluent = info.name \o <<" ", "=", "\n", " ", " ", " ", " ">>
                        \o Replace(info.original_text, <<"\n">>,
                                   <<"\n", " ", " ", " ", " ">>)

\* C2: in an encoded record the number of distinct index tokens of text is
\* len(all_variables), and the indices in order of first appearance are
\* 0, 1, 2, ... without gap.
C2_IndexContract ==
    Encoded =>
        /\ Cardinality(TokenIndices(info.text)) = Len(info.all_variables)
        /\ TokenIndices(info.text) = 0..(Len(info.all_variables) - 1)
        /\ \A i, j \in TokenIndices(info.text) :
               i < j => FirstPosition(info.text, i) < FirstPosition(info.text, j)

\* C3: every token {i} the encoder emitted for a reference p resolves to p:
\* all_variables[i] exists and Decode turns {i} into the markup of p, before
\* and after the text around the tokens was translated.
C3_TokenResolution ==
    (cpc # "parsed") =>
        \A e \in EmittedTokens(entry) :
            /\ e.index < Len(info.all_variables)
            /\ restore_text_with_variables([info EXCEPT !.text = IndexToken(e.index)])
                   = Markup(e.expression)

\* C4: translate_concatenated_batch never returns normally when the number
\* of pieces of the split answer differs from the size of the batch.
C4_AlignmentCheck ==
    bpc = "returned" => Len(translated_batch) = Len(msg_info_batch)

\* C5: when translate_concatenated_batch fails on the piece count, every
\* record of the batch has the text it had before the call.
C5_NoPartialAssignment ==
    bpc = "raised_IndexError" => msg_info_batch = batch_before

\* C6: for texts without the separator, splitting the joined text gives the
\* texts back, and when the provider answers with the query it was sent the
\* call returns with every record's text unchanged.
C6_BatchRoundTrip ==
    NoSeparatorIn(batch_before) =>
        /\ bpc = "awaiting" => Split(batch_text, separator) = batch_before
        /\ (bpc \in {"returned", "raised_IndexError"}
            /\ translated_raw = QueryOf(batch_text)) =>
               /\ bpc = "returned"
               /\ msg_info_batch = batch_before

\* C7: a call that was answered 429 k times, k <= retry_count, is still going
\* on after the k-th 429; and when the next answer is a 200 it has returned
\* the translation after exactly k + 1 requests and k sleeps.
C7_RetrySuccess ==
    \A t \in Tasks :
        n429[t] <= retry_limit =>
            /\ last_status[t] = "429" => Running(t)
            /\ last_status[t] = "ok" =>
                   /\ tpc[t] = "returned"
                   /\ tresult[t] = TranslationOf(texts[t])
                   /\ nrequests[t] = n429[t] + 1
                   /\ nsleeps[t] = n429[t]

C7_Witness ==
    \E t \in Tasks :
        /\ retry_limit >= 1
        /\ n429[t] = retry_limit
        /\ last_status[t] = "ok"
        /\ tpc[t] = "returned"

\* C8: a call that was answered 429 more than retry_count times in a row has
\* failed with the rate-limit error, after exactly retry_count + 1 requests.
C8_RetryExhaustion ==
    \A t \in Tasks :
        (n429[t] > retry_limit /\ last_status[t] = "429") =>
            /\ tpc[t] = "raised_TooManyRequests"
            /\ nrequests[t] = retry_limit + 1

\* C9: the requests in flight on one session never exceed its limit, and
\* the requests in flight in total never exceed sessions x limit.
C9_ConcurrencyBound ==
    /\ \A s \in SessionIds : InFlight(s) <= Limit
    /\ Cardinality({ t \in Tasks : tpc[t] = "in_flight" }) <= NumSessions * Limit

\* A session is full and another call is waiting for it
C9_Witness ==
    \E s \in SessionIds :
        /\ InFlight(s) = Limit
        /\ \E t \in Tasks : tpc[t] = "acquiring" /\ tsession[t] = s

\* C10: the list translate_batch returns has one element per text, and
\* element i is the translation of texts[i].
C10_OrderPreserved ==
    gpc = "returned" =>
        /\ DOMAIN gathered = Tasks
        /\ \A i \in Tasks : gathered[i] = TranslationOf(texts[i])

\* The calls completed in another order than the texts' order, one of them
\* after a retry, and the translations differ
C10_Witness ==
    /\ gpc = "returned"
    /\ completed[1] # 1
    /\ \E t \in Tasks : n429[t] > 0
    /\ \E i, j \in Tasks : gathered[i] # gathered[j]

\* C11: a translate call with an empty text or a text of more than 5000
\* characters is either not started or has raised ValueError, and it has
\* issued no request, holds no session, was answered nothing and never slept;
\* the ring was rotated once per request attempt of the other calls and never
\* for this one.
C11_InvalidInputFailsAtOnce ==
    /\ \A t \in Tasks :
           EmptyOrTooLong(texts[t]) =>
               /\ tpc[t] \in {"start", "raised_ValueError"}
               /\ nrequests[t] = 0
               /\ nsleeps[t] = 0
               /\ n429[t] = 0
               /\ tsession[t] = NoSession
    /\ GetSessionCalls = AttemptsOfValid(NumTasks)

\* A too long text and an empty text were both refused
C11_Witness ==
    /\ \E t \in Tasks : texts[t] = LongText /\ tpc[t] = "raised_ValueError"
    /\ \E t \in Tasks : texts[t] = <<>> /\ tpc[t] = "raised_ValueError"

\* C12: a call whose last answer was a non-success status other than 429, or
\* a malformed 200, has failed with TranslationError right after that
\* request: no sleep and no request followed it, whatever retry budget is
\* left.
C12_NonRetryableFailure ==
    \A t \in Tasks :
        last_status[t] = "error" =>
            /\ tpc[t] = "raised_TranslationError"
            /\ nrequests[t] = n429[t] + 1
            /\ nsleeps[t] = n429[t]

\* One call failed on its first request with the whole budget left, another
\* on a retry
C12_Witness ==
    \E t, u \in Tasks :
        /\ retry_limit >= 1
        /\ last_status[t] = "error" /\ n429[t] = 0
        /\ last_status[u] = "error" /\ n429[u] = 1
        /\ tpc[t] = "raised_TranslationError"
        /\ tpc[u] = "raised_TranslationError"

\* C18: the free permits of a session and the requests in flight on it
\* always add up to limit, and a task outside _request holds no session; so
\* a session without a request in flight has all its permits.
C18_NoPermitLeak ==
    /\ \A s \in SessionIds : permits[s] + InFlight(s) = Limit
    /\ \A t \in Tasks :
           tpc[t] \notin {"in_flight", "acquiring"} => tsession[t] = NoSession

\* Every call is over, one by an exception of the network call and one by
\* an answer, and every permit is back
C18_Witness ==
    /\ \A t \in Tasks : Finished(t)
    /\ \E t \in Tasks : last_status[t] = "exception"
    /\ \E t \in Tasks : last_status[t] \in {"ok", "429", "error"}
    /\ \A s \in SessionIds : permits[s] = Limit

\* C19: a sleeping task holds no session and no permit: the permits taken
\* from any session are exactly those of the requests the other tasks have
\* in flight on it.
C19_BackoffHoldsNoPermit ==
    \A t \in Tasks :
        tpc[t] = "sleeping" =>
            /\ tsession[t] = NoSession
            /\ \A s \in SessionIds : permits[s] = Limit - InFlightOfOthers(s, t)

\* While a task sleeps after a 429 on a session, the other tasks have limit
\* requests in flight on that session
C19_Witness ==
    \E t \in Tasks :
        /\ tpc[t] = "sleeping"
        /\ tlast[t] # NoSession
        /\ InFlightOfOthers(tlast[t], t) = Limit

\* C20: the ring always holds every session exactly once; after n calls of
\* get_session session s was returned once for every m < n with
\* m mod k = s - 1, the next call returns session (n mod k) + 1, and the
\* selection counts of two sessions differ by at most 1.
C20_RoundRobin ==
    LET n == GetSessionCalls IN
    /\ Len(sessions) = NumSessions
    /\ \A s \in SessionIds : \E i \in DOMAIN sessions :
           /\ sessions[i] = s
           /\ \A j \in DOMAIN sessions : sessions[j] = s => j = i
    /\ \A s \in SessionIds :
           nselected[s] = Cardinality({ m \in 0..(n - 1) : m % NumSessions = s - 1 })
    /\ Head(sessions) = (n % NumSessions) + 1
    /\ \A s1, s2 \in SessionIds :
           nselected[s1] - nselected[s2] \in {0 - 1, 0, 1}

\* The ring went round more than once, with a retry among the calls
C20_Witness ==
    /\ GetSessionCalls > NumSessions
    /\ \E t \in Tasks : n429[t] > 0

\* C16: in an encoded record no index token of an attribute has the index of
\* a token of the body or of an earlier attribute.
C16_IndexSpaceShared ==
    Encoded =>
        \A i, j \in DOMAIN Segments(info.text) :
            i < j => TokenIndices(Segments(info.text)[i])
                       \cap TokenIndices(Segments(info.text)[j]) = {}

\* C17: for a body of text elements, literals and references, the encoded
\* body has every literal in its literal form and the references numbered
\* 0, 1, 2, ... in order, the literals taking no index.
C17_LiteralsTakeNoIndex ==
    (Encoded /\ entry.value.type = "Pattern"
             /\ ~HasKind(entry.value.elements, "SelectExpression")) =>
        Segments(info.text)[1] = TextWithReferenceIndexes(entry.value.elements, 0)

\* C13: target_locales of a constructed options object does not contain
\* origin_locale, contains every other requested locale exactly once and
\* nothing else, and no file is ever written below the origin locale
\* directory.
C13_OriginExcluded ==
    /\ opts.origin_locale \notin Range(opts.target_locales)
    /\ \A l \in Range(requested) \ {opts.origin_locale} :
           Cardinality({ i \in DOMAIN opts.target_locales : opts.target_locales[i] = l }) = 1
    /\ Range(opts.target_locales) \subseteq Range(requested)
    /\ \A i \in DOMAIN written : ~StartsWith(written[i].file, origin_locale_dir(opts))

\* The request named the origin and named another locale twice, and the run
\* ended with files written
C13_Witness ==
    /\ opts.origin_locale \in Range(requested)
    /\ \E i, j \in DOMAIN requested :
           i # j /\ requested[i] = requested[j] /\ requested[i] # opts.origin_locale
    /\ opc = "done"
    /\ written # <<>>

\* C14: every target file written holds the translation of all records of
\* its source file, no target file is written twice, and when a batch failed
\* nothing was written for the file and locale it belongs to.
C14_NoPartialOutput ==
    /\ \A i \in DOMAIN written :
           written[i].text = DecodedBatch(RecordsOf(written[i].source), written[i].locale)
    /\ \A i, j \in DOMAIN written : written[i].file = written[j].file => i = j
    /\ (opc = "raised" /\ bi >= 1) =>
           \A i \in DOMAIN written :
               ~(written[i].source = ftl_files[fi]
                 /\ written[i].locale = opts.target_locales[li])

\* A batch failed after an earlier batch of the same file had succeeded and
\* after an earlier file had been written
C14_Witness ==
    /\ opc = "raised"
    /\ bi >= 2
    /\ written # <<>>

\* C21: the batches of a file are slices of 1 to translate_batch_size
\* records, every batch but the last has exactly translate_batch_size
\* records, the batches put one after the other are the record list of the
\* file, and a file without records has no batch.
C21_Chunk ==
    opc \in {"batch", "write"} =>
        LET messages_info == RecordsOf(ftl_files[fi])
            size == opts.translate_batch_size
        IN  /\ \A k \in DOMAIN batches : Len(batches[k]) \in 1..size
            /\ \A k \in 1..(Len(batches) - 1) : Len(batches[k]) = size
            /\ Flatten(batches) = messages_info
            /\ messages_info = <<>> => batches = <<>>

\* A file of more records than one batch holds, the last batch not full
C21_Witness ==
    /\ opc = "batch"
    /\ Len(batches) >= 2
    /\ Len(batches[Len(batches)]) < opts.translate_batch_size

\* C22: in the steps taken for one target locale and one source file no
\* record is overwritten twice or decoded twice, and a record is decoded only
\* after it was overwritten; the file is written at most once and only as the
\* last step, when every record was overwritten once and decoded once; what
\* is written is the decoded records in source order, each followed by a
\* blank line; and a run that ended well wrote one file for every target
\* locale and every applicable source file.
C22_RecordLifecycle ==
    /\ \A i, j \in DOMAIN events : events[i] = events[j] => i = j
    /\ \A i \in DOMAIN events :
           events[i].kind = "decode" =>
               \E j \in 1..(i - 1) :
                   events[j] = [kind |-> "overwrite", name |-> events[i].name]
    /\ \A i \in DOMAIN events :
           events[i].kind = "write" =>
               /\ i = Len(events)
               /\ \A k \in DOMAIN LoggedRecords :
                      /\ Cardinality(EventsOf("overwrite", LoggedRecords[k])) = 1
                      /\ Cardinality(EventsOf("decode", LoggedRecords[k])) = 1
    /\ \A i \in DOMAIN written :
           LET messages_info == RecordsOf(written[i].source) IN
           written[i].text =
               [k \in DOMAIN messages_info |->
                   [name |-> messages_info[k], locale |-> written[i].locale,
                    end |-> <<"\n", "\n">>]]
    /\ opc = "done" =>
           \A l \in DOMAIN opts.target_locales : \A f \in DOMAIN ftl_files :
               is_applicable(opts, ftl_files[f]) =>
                   Cardinality({ i \in DOMAIN written :
                                   /\ written[i].source = ftl_files[f]
                                   /\ written[i].locale = opts.target_locales[l] }) = 1

\* A run over two target locales ended well; the file written last had its
\* records in more than one batch
C22_Witness ==
    /\ opc = "done"
    /\ Len(opts.target_locales) >= 2
    /\ Len(written) >= 2
    /\ Len(batches) >= 2
    /\ events # <<>>
    /\ events[Len(events)].kind = "write"

\* C23: to_fluent returns only for a record whose text has no token {j} with
\* j >= len(all_variables), and the text it returns has no such token.
C23_StrayTokenFails ==
    cpc \in {"decoded", "decoded_untranslated"} =>
        /\ StrayIndices(info) = {}
        /\ \A j \in TokenIndices(fluent) : j < Len(info.all_variables)

C25_Termination ==
    /\ [](\A t \in Tasks : /\ nrequests[t] <= retry_limit + 2
                            /\ nsleeps[t] <= retry_limit + 1)
    /\ <>(\A t \in Tasks : Finished(t))

\* A call used its whole budget: retry_count + 2 requests, all answered 429,
\* and retry_count + 1 sleeps
C25_Witness ==
    \E t \in Tasks :
        /\ retry_limit >= 1
        /\ tpc[t] = "raised_TooManyRequests"
        /\ nrequests[t] = retry_limit + 2
        /\ nsleeps[t] = retry_limit + 1

\* C26: self.source, self.target and self.params are at all times what
\* __init__ made them, and the parameters a call holds for its request, while
\* it waits for a permit and while the request is in flight, are its own
\* source and target (those of the translator where it was given none) and
\* its own text.
C26_ParameterIsolation ==
    /\ self_source = <<"r", "u">>
    /\ self_target = <<"e", "n">>
    /\ self_params = [client |-> <<"g", "t", "x">>, dt |-> <<"t">>,
                      sl |-> <<"r", "u">>, tl |-> <<"e", "n">>, q |-> <<>>]
    /\ \A t \in Tasks :
           tpc[t] \in {"acquiring", "in_flight"} => tparams[t] = ExpectedParams(t)

\* Two requests are in flight at once, one of a call with a target of its
\* own made after a retry, one of a call without, for different texts
C26_Witness ==
    \E t, u \in Tasks :
        /\ tpc[t] = "in_flight" /\ tpc[u] = "in_flight"
        /\ ttarget[t] # NoLanguage /\ ttarget[u] = NoLanguage
        /\ nsleeps[t] >= 1
        /\ texts[t] # texts[u]

\* C27: every request in flight carries a query of 1 to 5000 characters.
C27_NoEmptyQuery ==
    \A t \in Tasks :
        tpc[t] = "in_flight" => Len(tparams[t].q) \in 1..max_chars

\* C28: the polling hands over the content of the output file, and only of
\* a completed job; and once the job is completed, failed, expired or
\* cancelled the polling comes to an end.
C28_PollingTerminates ==
    /\ [](apc = "fetched" =>
              /\ job_status = "completed"
              /\ results = [k \in DOMAIN output |-> output[k].content])
    /\ (job_status \in TerminalStatuses) ~> (apc \notin {"polling", "sleeping"})

\* C29: when translate_batch has returned, every object holds the content
\* of the output line that has its custom_id; and when the output file has
\* fewer lines than there are objects, translate_batch does not return and
\* no target file is written.
C29_BatchAttribution ==
    /\ apc \in {"returned", "done"} =>
           \A i \in DOMAIN ai_batch :
               /\ LinesOf(i) # {}
               /\ \A k \in LinesOf(i) : ai_batch[i].translated_data = output[k].content
    /\ (job_status = "completed" /\ Len(output) < Len(ai_batch)) =>
           /\ apc \notin {"returned", "done"}
           /\ ai_written = <<>>

====
